---- MODULE Spec2Model ----
(***************************************************************************)
(* Model of src/minesweeper.py: the Minesweeper board, the Sentence        *)
(* ("cells = count") constraint and the MinesweeperAI knowledge base with  *)
(* its add_knowledge fixpoint loop.                                        *)
(*                                                                         *)
(* Cells are pairs <<i, j>>, 0-indexed as in the source.  A Sentence is a  *)
(* record [cells, count]; the list self.knowledge is a sequence of such    *)
(* records (Python position p is index p + 1 here).  Python's None is the  *)
(* record NoneSet for the set-valued results of known_mines/known_safes    *)
(* and the empty tuple NoneMove for the cell-valued results of the         *)
(* make_*_move methods.                                                    *)
(***************************************************************************)
EXTENDS Integers, Sequences, FiniteSets, TLC

\* ------------------------------------------------------------------ bounds
\* Boards of every shape h x w with h * w <= MaxCells are explored.
MaxCells == 6
\* At most MaxMines mines are placed on a board.
MaxMines == 2
\* At most MaxCalls calls of add_knowledge are made in one run.
MaxCalls == 3

VARIABLES
    height,      \* Minesweeper.height / MinesweeperAI.height
    width,       \* Minesweeper.width  / MinesweeperAI.width
    board,       \* Minesweeper.board: the cells whose board[i][j] is True
    mine_cells,  \* Minesweeper.mines, the set of mine cells
    mine_count,  \* the argument `mines` of Minesweeper.__init__
    moves_made,  \* MinesweeperAI.moves_made
    mines,       \* MinesweeperAI.mines
    safes,       \* MinesweeperAI.safes
    knowledge,   \* MinesweeperAI.knowledge, a list of Sentences
    cycles,      \* the local `cycles` of add_knowledge
    pc,          \* where the running call stands
    calls,       \* the cells passed to add_knowledge (nearby_mines) so far
    ret          \* the value returned by the latest completed call

vars == <<height, width, board, mine_cells, mine_count, moves_made, mines, safes, knowledge,
          cycles, pc, calls, ret>>

\* ------------------------------------------------------------------ values
NoneSet == [none |-> TRUE, cells |-> {}]

SomeSet(S) == [none |-> FALSE, cells |-> S]

NoneMove == <<>>

AllCells(h, w) == {<<i, j>> : i \in 0 .. h - 1, j \in 0 .. w - 1}

\* ------------------------------------------------------------------ Board
\* Minesweeper.is_mine
is_mine(b, cell) == cell \in b

nearby_mines_CountsCell(b, h, w, cell) ==
    Cardinality({c \in {<<i, j>> : i \in cell[1] - 1 .. cell[1] + 1,
                                   j \in cell[2] - 1 .. cell[2] + 1} :
                    /\ 0 <= c[1] /\ c[1] < h /\ 0 <= c[2] /\ c[2] < w
                    /\ c \in b})

\* Minesweeper.nearby_mines: mines within one row and column of cell, the
\* cell itself and the positions off the board not counted.
nearby_mines(b, h, w, cell) ==
    Cardinality({c \in {<<i, j>> : i \in cell[1] - 1 .. cell[1] + 1,
                                   j \in cell[2] - 1 .. cell[2] + 1} :
                    /\ c # cell
                    /\ 0 <= c[1] /\ c[1] < h /\ 0 <= c[2] /\ c[2] < w
                    /\ c \in b})

\* ------------------------------------------------------------------ Sentence
\* Sentence.__init__
Sentence(cells, count) == [cells |-> cells, count |-> count]

\* Sentence.__eq__
SentenceEq(a, b) == a.cells = b.cells /\ a.count = b.count

\* Sentence.known_mines
known_mines(s) ==
    IF Cardinality(s.cells) <= s.count THEN SomeSet(s.cells) ELSE NoneSet

\* Sentence.known_safes
known_safes(s) ==
    IF s.count = 0 THEN SomeSet(s.cells) ELSE NoneSet

\* Sentence.mark_mine
SentenceMarkMine_Always(s, cell) ==
    [cells |-> s.cells \ {cell}, count |-> s.count - 1]

SentenceMarkMine(s, cell) ==
    IF cell \in s.cells
    THEN [cells |-> s.cells \ {cell}, count |-> s.count - 1]
    ELSE s

\* Sentence.mark_safe
SentenceMarkSafe(s, cell) ==
    IF cell \in s.cells
    THEN [cells |-> s.cells \ {cell}, count |-> s.count]
    ELSE s

\* ------------------------------------------------------------------ MinesweeperAI
\* The knowledge-base part of the state that mark_mine / mark_safe and the
\* passes of add_knowledge work on.
KB(k, sf, mn, cy) == [k |-> k, safes |-> sf, mines |-> mn, cycles |-> cy]

\* MinesweeperAI.mark_mine
AIMarkMine_Replace(kb, cell) ==
    [kb EXCEPT !.mines = {cell},
               !.k = [i \in DOMAIN @ |-> SentenceMarkMine(@[i], cell)]]

AIMarkMine(kb, cell) ==
    [kb EXCEPT !.mines = @ \cup {cell},
               !.k = [i \in DOMAIN @ |-> SentenceMarkMine(@[i], cell)]]

AIMarkSafe_SetOnly(kb, cell) ==
    [kb EXCEPT !.safes = @ \cup {cell}]

\* MinesweeperAI.mark_safe
AIMarkSafe(kb, cell) ==
    [kb EXCEPT !.safes = @ \cup {cell},
               !.k = [i \in DOMAIN @ |-> SentenceMarkSafe(@[i], cell)]]

\* The value of v, computed once and handed to F (evaluation order only: the
\* result is F(v)).  The loops below pass the knowledge base from one
\* iteration to the next through it.
With(v, F(_)) == CHOOSE r \in {F(x) : x \in {v}} : TRUE

\* `for cell in mines: self.mark_mine(cell)` over a copied set
RECURSIVE MarkMines(_, _)
MarkMines(kb0, S) ==
    With(kb0, LAMBDA kb :
        IF S = {} THEN kb
        ELSE LET c == CHOOSE x \in S : TRUE
             IN  MarkMines(AIMarkMine(kb, c), S \ {c}))

\* `for cell in safes: self.mark_safe(cell)` over a copied set
RECURSIVE MarkSafes(_, _)
MarkSafes(kb0, S) ==
    With(kb0, LAMBDA kb :
        IF S = {} THEN kb
        ELSE LET c == CHOOSE x \in S : TRUE
             IN  MarkSafes(AIMarkSafe(kb, c), S \ {c}))

\* list.remove(x): drops the first element equal (by __eq__) to x
RECURSIVE FirstEq(_, _, _)
FirstEq(k, s, i) ==
    IF i > Len(k) THEN 0
    ELSE IF SentenceEq(k[i], s) THEN i
    ELSE FirstEq(k, s, i + 1)

ListRemove_Keep(k, s) == k

ListRemove(k, s) ==
    LET p == FirstEq(k, s, 1)
    IN  IF p = 0 THEN k
        ELSE [i \in 1 .. Len(k) - 1 |-> IF i < p THEN k[i] ELSE k[i + 1]]

\* `x in list`: some element equal (by __eq__) to x
ListContains(k, s) == \E i \in DOMAIN k : SentenceEq(k[i], s)

\* The in-bounds neighbours of cell (loop of step 3a, before the knowledge test)
Neighbours(h, w, cell) ==
    {c \in {<<i, j>> : i \in cell[1] - 1 .. cell[1] + 1,
                       j \in cell[2] - 1 .. cell[2] + 1} :
        /\ ~(c[1] < 0 \/ c[1] > h - 1 \/ c[2] < 0 \/ c[2] > w - 1)
        /\ c # cell}

\* Step 3a: the neighbours that are in none of moves_made, mines, safes
NewCells(h, w, cell, mm, mn, sf) ==
    {c \in Neighbours(h, w, cell) : c \notin mm /\ c \notin mn /\ c \notin sf}

\* Step 3b: the count the new sentence is given
NewCount(cell, count, mn, h, w) == count

\* One retirement of step 4: the cycles flag and self.knowledge.remove(sentence)
\* for the sentence at list position i (lines 240-241 and 248-249)
Retire(m0, i) ==
    With(m0, LAMBDA m : [m EXCEPT !.cycles = 2, !.k = ListRemove(m.k, m.k[i])])

\* Step 4, the loop `for sentence in self.knowledge` from list position i on.
\* The list iterator keeps a position; list.remove shifts the later elements
\* down under it.
RECURSIVE ResolveFrom(_, _)
ResolveFrom(kb0, i) ==
    With(kb0, LAMBDA kb :
        IF i > Len(kb.k) THEN kb
        ELSE IF ~known_safes(kb.k[i]).none
             THEN ResolveFrom(Retire(MarkSafes(kb, known_safes(kb.k[i]).cells), i),
                              i + 1)
             ELSE IF ~known_mines(kb.k[i]).none
             THEN ResolveFrom(Retire(MarkMines(kb, known_mines(kb.k[i]).cells), i),
                              i + 1)
             ELSE ResolveFrom(kb, i + 1))

\* `if newSentence not in self.knowledge: self.knowledge.append(newSentence);
\* cycles = 2` (lines 263-266 and 271-274)
AppendIfNew(kb0, n) ==
    With(kb0, LAMBDA kb :
        IF ~ListContains(kb.k, n)
        THEN [kb EXCEPT !.k = Append(@, n), !.cycles = 2]
        ELSE kb)

\* Lines 259-266 with (X, Y) = (sentenceA, sentenceB) and lines 267-274 with
\* (X, Y) = (sentenceB, sentenceA): Y's cells all in X's, X has more cells and
\* a larger count.
InferSubset_Strict(kb, X, Y) ==
    IF /\ Cardinality(Y.cells \ X.cells) = 0
       /\ Cardinality(X.cells \ Y.cells) # 0
       /\ X.count - Y.count > 1
    THEN AppendIfNew(kb, Sentence(X.cells \ Y.cells, X.count - Y.count))
    ELSE kb

InferSubset(kb, X, Y) ==
    IF /\ Cardinality(Y.cells \ X.cells) = 0
       /\ Cardinality(X.cells \ Y.cells) # 0
       /\ X.count - Y.count > 0
    THEN AppendIfNew(kb, Sentence(X.cells \ Y.cells, X.count - Y.count))
    ELSE kb

\* Step 5, one (sentenceA, sentenceB) pair: lines 253-274
InferPair(kb0, a, b) ==
    With(kb0, LAMBDA kb :
        IF SentenceEq(kb.k[a], kb.k[b]) THEN kb
        ELSE IF Cardinality(kb.k[a].cells) = 0 \/ Cardinality(kb.k[b].cells) = 0
        THEN kb
        ELSE InferSubset(InferSubset(kb, kb.k[a], kb.k[b]), kb.k[b], kb.k[a]))

\* The inner loop `for sentenceB in self.knowledge` from position b on
RECURSIVE InferInner(_, _, _)
InferInner(kb0, a, b) ==
    With(kb0, LAMBDA kb :
        IF b > Len(kb.k) THEN kb
        ELSE InferInner(InferPair(kb, a, b), a, b + 1))

\* The outer loop `for sentenceA in self.knowledge` from position a on
RECURSIVE InferOuter(_, _)
InferOuter(kb0, a) ==
    With(kb0, LAMBDA kb :
        IF a > Len(kb.k) THEN kb
        ELSE InferOuter(InferInner(kb, a, 1), a + 1))

\* MinesweeperAI.make_safe_move: what the call may return
SafeMoves_KeepMoves(sf, mm, mn) ==
    LET availableSafeMoves == sf \ mn
    IN  IF Cardinality(availableSafeMoves) = 0 THEN {NoneMove}
        ELSE availableSafeMoves

SafeMoves(sf, mm, mn) ==
    LET availableSafeMoves == (sf \ mm) \ mn
    IN  IF Cardinality(availableSafeMoves) = 0 THEN {NoneMove}
        ELSE availableSafeMoves

\* MinesweeperAI.make_random_move: what the call may return
RandomMoves_KeepMoves(h, w, mm, mn) ==
    LET availableMoves == AllCells(h, w) \ mn
    IN  IF Cardinality(availableMoves) = 0 THEN {NoneMove}
        ELSE availableMoves

RandomMoves(h, w, mm, mn) ==
    LET availableMoves == (AllCells(h, w) \ mn) \ mm
    IN  IF Cardinality(availableMoves) = 0 THEN {NoneMove}
        ELSE availableMoves

\* ------------------------------------------------------------------ state machine
\* The shapes of board explored, and the placements of mines on them
Dims == {d \in (1 .. MaxCells) \X (1 .. MaxCells) : d[1] * d[2] <= MaxCells}

\* Minesweeper.__init__ and MinesweeperAI.__init__: a board with its mines
\* placed and an empty knowledge base.
Init ==
    /\ \E d \in Dims : height = d[1] /\ width = d[2]
    /\ board \in {b \in SUBSET AllCells(height, width) : Cardinality(b) <= MaxMines}
    /\ mine_cells = board
    /\ mine_count = Cardinality(board)
    /\ moves_made = {}
    /\ mines = {}
    /\ safes = {}
    /\ knowledge = <<>>
    /\ cycles = 0
    /\ pc = "idle"
    /\ calls = <<>>
    /\ ret = NoneMove

\* add_knowledge(cell, count), lines 203-231: steps 1 to 3 and the entry of
\* the fixpoint loop.
AddKnowledgeBegin(cell, count) ==
    LET kb0 == AIMarkSafe(KB(knowledge, safes, mines, 1), cell)
        nc  == NewCells(height, width, cell, moves_made \cup {cell},
                        kb0.mines, kb0.safes)
        ns  == Sentence(nc, NewCount(cell, count, kb0.mines, height, width))
    IN  /\ moves_made' = moves_made \cup {cell}
        /\ safes' = kb0.safes
        /\ mines' = kb0.mines
        /\ knowledge' = IF Cardinality(nc) # 0 THEN Append(kb0.k, ns) ELSE kb0.k
        /\ cycles' = 1
        /\ pc' = "resolve"
        /\ calls' = Append(calls, cell)
        /\ ret' = NoneMove
        /\ UNCHANGED <<height, width, board, mine_cells, mine_count>>

\* A caller probes any safe cell of the board and reports its count.
AddKnowledge ==
    /\ pc = "idle"
    /\ Len(calls) < MaxCalls
    /\ \E cell \in AllCells(height, width) \ board :
         AddKnowledgeBegin(cell, nearby_mines(board, height, width, cell))

\* Step 4 of one iteration of `while cycles > 0`, lines 234-249
ResolutionPass ==
    /\ pc = "resolve"
    /\ LET r == ResolveFrom(KB(knowledge, safes, mines, cycles), 1)
       IN  /\ knowledge' = r.k
           /\ safes' = r.safes
           /\ mines' = r.mines
           /\ cycles' = r.cycles
    /\ pc' = "infer"
    /\ UNCHANGED <<height, width, board, mine_cells, mine_count, moves_made, calls, ret>>

\* Step 5 of one iteration of `while cycles > 0`, `cycles -= 1` and the loop
\* test, lines 251-275 and 232
InferencePass ==
    /\ pc = "infer"
    /\ LET r == InferOuter(KB(knowledge, safes, mines, cycles), 1)
       IN  /\ knowledge' = r.k
           /\ cycles' = r.cycles - 1
           /\ pc' = IF r.cycles - 1 > 0 THEN "resolve" ELSE "idle"
    /\ UNCHANGED <<height, width, board, mine_cells, mine_count, moves_made, mines, safes, calls,
                   ret>>

\* make_safe_move()
MakeSafeMove_PopsSafes ==
    /\ pc = "idle"
    /\ ret' \in SafeMoves(safes, moves_made, mines)
    /\ safes' = safes \ {ret'}
    /\ UNCHANGED <<height, width, board, mine_cells, mine_count, moves_made, mines, knowledge,
                   cycles, pc, calls>>

MakeSafeMove ==
    /\ pc = "idle"
    /\ ret' \in SafeMoves(safes, moves_made, mines)
    /\ UNCHANGED <<height, width, board, mine_cells, mine_count, moves_made, mines, safes, knowledge,
                   cycles, pc, calls>>

\* make_random_move()
MakeRandomMove ==
    /\ pc = "idle"
    /\ ret' \in RandomMoves(height, width, moves_made, mines)
    /\ UNCHANGED <<height, width, board, mine_cells, mine_count, moves_made, mines, safes, knowledge,
                   cycles, pc, calls>>

\* The calls of add_knowledge alone
NextCalls ==
    \/ AddKnowledge
    \/ ResolutionPass
    \/ InferencePass

Next ==
    \/ AddKnowledge
    \/ ResolutionPass
    \/ InferencePass
    \/ MakeSafeMove
    \/ MakeRandomMove

Spec == Init /\ [][Next]_vars

\* A call of add_knowledge that has begun keeps running: the interpreter takes
\* the next step of the loop whenever there is one.
FairSpec ==
    Init /\ [][NextCalls]_vars /\ WF_vars(ResolutionPass) /\ WF_vars(InferencePass)

\* ------------------------------------------------------------------ direct marks
\* A caller marks a cell directly, between calls of add_knowledge, and then
\* repeats the same call with the same cell.
\* mark_safe(cell)
CallMarkSafe ==
    /\ pc = "idle"
    /\ \E cell \in AllCells(height, width) :
         LET m == AIMarkSafe(KB(knowledge, safes, mines, cycles), cell)
         IN  /\ knowledge' = m.k
             /\ safes' = m.safes
             /\ mines' = m.mines
             /\ ret' = cell
    /\ pc' = "marked_safe"
    /\ UNCHANGED <<height, width, board, mine_cells, mine_count, moves_made, cycles, calls>>

\* mark_mine(cell)
CallMarkMine ==
    /\ pc = "idle"
    /\ \E cell \in AllCells(height, width) :
         LET m == AIMarkMine(KB(knowledge, safes, mines, cycles), cell)
         IN  /\ knowledge' = m.k
             /\ safes' = m.safes
             /\ mines' = m.mines
             /\ ret' = cell
    /\ pc' = "marked_mine"
    /\ UNCHANGED <<height, width, board, mine_cells, mine_count, moves_made, cycles, calls>>

\* mark_safe(cell) again, with the cell of the call before
RepeatMarkSafe ==
    /\ pc = "marked_safe"
    /\ LET m == AIMarkSafe(KB(knowledge, safes, mines, cycles), ret)
       IN  /\ knowledge' = m.k
           /\ safes' = m.safes
           /\ mines' = m.mines
    /\ pc' = "marked_twice"
    /\ UNCHANGED <<height, width, board, mine_cells, mine_count, moves_made, cycles, calls, ret>>

\* mark_mine(cell) again, with the cell of the call before
RepeatMarkMine ==
    /\ pc = "marked_mine"
    /\ LET m == AIMarkMine(KB(knowledge, safes, mines, cycles), ret)
       IN  /\ knowledge' = m.k
           /\ safes' = m.safes
           /\ mines' = m.mines
    /\ pc' = "marked_twice"
    /\ UNCHANGED <<height, width, board, mine_cells, mine_count, moves_made, cycles, calls, ret>>

NextMarks ==
    \/ AddKnowledge
    \/ ResolutionPass
    \/ InferencePass
    \/ CallMarkSafe
    \/ CallMarkMine
    \/ RepeatMarkSafe
    \/ RepeatMarkMine

SpecMarks == Init /\ [][NextMarks]_vars

\* ------------------------------------------------------------------ one Sentence
\* A single Sentence object, built from any cells of a board and any count
\* from -1 to one more than the board has cells, and used through its methods.
\* It is held as the only element of knowledge.
InitSentence ==
    /\ \E d \in Dims : height = d[1] /\ width = d[2]
    /\ board = {}
    /\ mine_cells = board
    /\ mine_count = Cardinality(board)
    /\ moves_made = {}
    /\ mines = {}
    /\ safes = {}
    /\ \E cs \in SUBSET AllCells(height, width), n \in -1 .. height * width + 1 :
         knowledge = <<Sentence(cs, n)>>
    /\ cycles = 0
    /\ pc = "sentence"
    /\ calls = <<>>
    /\ ret = NoneSet

\* sentence.known_mines()
CallKnownMines ==
    /\ pc = "sentence"
    /\ ret' = known_mines(knowledge[1])
    /\ UNCHANGED <<height, width, board, mine_cells, mine_count, moves_made, mines, safes, knowledge,
                   cycles, pc, calls>>

\* sentence.known_safes()
CallKnownSafes ==
    /\ pc = "sentence"
    /\ ret' = known_safes(knowledge[1])
    /\ UNCHANGED <<height, width, board, mine_cells, mine_count, moves_made, mines, safes, knowledge,
                   cycles, pc, calls>>

\* sentence.mark_mine(cell)
CallSentenceMarkMine ==
    /\ pc = "sentence"
    /\ \E cell \in AllCells(height, width) :
         knowledge' = <<SentenceMarkMine(knowledge[1], cell)>>
    /\ ret' = NoneSet
    /\ UNCHANGED <<height, width, board, mine_cells, mine_count, moves_made, mines, safes, cycles, pc,
                   calls>>

\* sentence.mark_safe(cell)
CallSentenceMarkSafe ==
    /\ pc = "sentence"
    /\ \E cell \in AllCells(height, width) :
         knowledge' = <<SentenceMarkSafe(knowledge[1], cell)>>
    /\ ret' = NoneSet
    /\ UNCHANGED <<height, width, board, mine_cells, mine_count, moves_made, mines, safes, cycles, pc,
                   calls>>

NextSentence ==
    \/ CallKnownMines
    \/ CallKnownSafes
    \/ CallSentenceMarkMine
    \/ CallSentenceMarkSafe

SpecSentence == InitSentence /\ [][NextSentence]_vars

\* ------------------------------------------------------------------ scenario
\* The end-to-end scenario: a 3 x 3 board whose only mine is (2,2), probed
\* from an empty knowledge base.
ScenarioBoard == {<<2, 2>>}

ScenarioCalls == <<<<0, 0>>, <<1, 1>>, <<1, 2>>, <<2, 1>>>>

InitScenario ==
    /\ height = 3
    /\ width = 3
    /\ board = ScenarioBoard
    /\ mine_cells = board
    /\ mine_count = Cardinality(board)
    /\ moves_made = {}
    /\ mines = {}
    /\ safes = {}
    /\ knowledge = <<>>
    /\ cycles = 0
    /\ pc = "idle"
    /\ calls = <<>>
    /\ ret = NoneMove

\* A caller probes any safe cell of the scenario's board, as many times as the
\* scenario has calls.
AddKnowledgeScenario ==
    /\ pc = "idle"
    /\ Len(calls) < Len(ScenarioCalls)
    /\ \E cell \in AllCells(height, width) \ board :
         AddKnowledgeBegin(cell, nearby_mines(board, height, width, cell))

NextScenario ==
    \/ AddKnowledgeScenario
    \/ ResolutionPass
    \/ InferencePass
    \/ MakeSafeMove
    \/ MakeRandomMove

SpecScenario == InitScenario /\ [][NextScenario]_vars

\* ------------------------------------------------------------------ driver
\* The turn loop of the collaborating driver: prefer make_safe_move, fall
\* back to make_random_move, stop on a mine or when no move is left, and
\* otherwise report the probed cell's count with add_knowledge.
DriverProbe(move) ==
    IF is_mine(board, move)
    THEN /\ pc' = "lost"
         /\ ret' = move
         /\ UNCHANGED <<height, width, board, mine_cells, mine_count, moves_made, mines, safes,
                        knowledge, cycles, calls>>
    ELSE AddKnowledgeBegin(move, nearby_mines(board, height, width, move))

DriverSafeMove ==
    /\ pc = "idle"
    /\ Len(calls) < MaxCalls
    /\ \E move \in SafeMoves(safes, moves_made, mines) :
         /\ move # NoneMove
         /\ DriverProbe(move)

DriverRandomMove ==
    /\ pc = "idle"
    /\ Len(calls) < MaxCalls
    /\ SafeMoves(safes, moves_made, mines) = {NoneMove}
    /\ \E move \in RandomMoves(height, width, moves_made, mines) :
         /\ move # NoneMove
         /\ DriverProbe(move)

DriverNoMove ==
    /\ pc = "idle"
    /\ SafeMoves(safes, moves_made, mines) = {NoneMove}
    /\ RandomMoves(height, width, moves_made, mines) = {NoneMove}
    /\ pc' = "nomove"
    /\ ret' = NoneMove
    /\ UNCHANGED <<height, width, board, mine_cells, mine_count, moves_made, mines, safes,
                   knowledge, cycles, calls>>

NextDriver ==
    \/ DriverSafeMove
    \/ DriverRandomMove
    \/ DriverNoMove
    \/ ResolutionPass
    \/ InferencePass

SpecDriver == Init /\ [][NextDriver]_vars

\* ------------------------------------------------------------------ board construction
\* Minesweeper(height, width, mines) is called: lines 13-23, the empty field.
InitBoard ==
    /\ \E d \in Dims : height = d[1] /\ width = d[2]
    /\ mine_count \in 0 .. MaxMines + 1
    /\ board = {}
    /\ mine_cells = {}
    /\ moves_made = {}
    /\ mines = {}
    /\ safes = {}
    /\ knowledge = <<>>
    /\ cycles = 0
    /\ pc = "placing"
    /\ calls = <<>>
    /\ ret = NoneMove

\* One iteration of `while len(self.mines) != mines`, lines 26-31: a random
\* position, made a mine when it is not one yet.
PlaceMine ==
    /\ pc = "placing"
    /\ Cardinality(mine_cells) # mine_count
    /\ \E i \in 0 .. height - 1, j \in 0 .. width - 1 :
         IF ~ is_mine(board, <<i, j>>)
         THEN /\ mine_cells' = mine_cells \cup {<<i, j>>}
              /\ board' = board \cup {<<i, j>>}
         ELSE UNCHANGED <<mine_cells, board>>
    /\ UNCHANGED <<height, width, mine_count, moves_made, mines, safes,
                   knowledge, cycles, pc, calls, ret>>

\* The loop test of line 26 fails and the constructor returns, line 34.
BoardBuilt ==
    /\ pc = "placing"
    /\ Cardinality(mine_cells) = mine_count
    /\ pc' = "built"
    /\ UNCHANGED <<height, width, board, mine_cells, mine_count, moves_made,
                   mines, safes, knowledge, cycles, calls, ret>>

\* nearby_mines(cell) is called on a cell of the built board.
CallNearbyMines ==
    /\ pc = "built"
    /\ \E cell \in AllCells(height, width) :
         /\ calls' = <<cell>>
         /\ ret' = nearby_mines(board, height, width, cell)
    /\ pc' = "counted"
    /\ UNCHANGED <<height, width, board, mine_cells, mine_count, moves_made,
                   mines, safes, knowledge, cycles>>

NextBoard == PlaceMine \/ BoardBuilt \/ CallNearbyMines

SpecBoard == InitBoard /\ [][NextBoard]_vars

\* random.randrange reaches every position: while a position is free and a
\* mine is still wanted, one is placed in the end.
FairSpecBoard ==
    SpecBoard /\ WF_vars(PlaceMine) /\ WF_vars(BoardBuilt)

\* ------------------------------------------------------------------ dense boards
\* Minesweeper.__init__ and MinesweeperAI.__init__ as in Init, for the boards
\* that hold one mine more than those of Init.
InitDense ==
    /\ \E d \in Dims : height = d[1] /\ width = d[2]
    /\ board \in {b \in SUBSET AllCells(height, width) :
                     Cardinality(b) = MaxMines + 1}
    /\ mine_cells = board
    /\ mine_count = Cardinality(board)
    /\ moves_made = {}
    /\ mines = {}
    /\ safes = {}
    /\ knowledge = <<>>
    /\ cycles = 0
    /\ pc = "idle"
    /\ calls = <<>>
    /\ ret = NoneMove

SpecDense == InitDense /\ [][NextCalls]_vars

\* ------------------------------------------------------------------ any count
\* MinesweeperAI.__init__ alone: the knowledge base does not hold the board,
\* and the caller is free in the count it reports.
InitAI ==
    /\ \E d \in Dims : height = d[1] /\ width = d[2]
    /\ board = {}
    /\ mine_cells = board
    /\ mine_count = Cardinality(board)
    /\ moves_made = {}
    /\ mines = {}
    /\ safes = {}
    /\ knowledge = <<>>
    /\ cycles = 0
    /\ pc = "idle"
    /\ calls = <<>>
    /\ ret = NoneMove

\* add_knowledge(cell, count) for any cell of the board and any count, those
\* no cell can have included.
AddKnowledgeAnyCount ==
    /\ pc = "idle"
    /\ Len(calls) < MaxCalls
    /\ \E cell \in AllCells(height, width), count \in -1 .. MaxMines :
         AddKnowledgeBegin(cell, count)

NextAnyCount == AddKnowledgeAnyCount \/ ResolutionPass \/ InferencePass

SpecAnyCount == InitAI /\ [][NextAnyCount]_vars

\* ------------------------------------------------------------------ claims
\* The cells of the board at Chebyshev distance exactly 1 from cell
Adjacent(cell) ==
    {c \in AllCells(height, width) :
        /\ c # cell
        /\ c[1] - cell[1] \in {-1, 0, 1}
        /\ c[2] - cell[2] \in {-1, 0, 1}}

\* No cell was passed to add_knowledge twice
FreshCalls == \A i, j \in DOMAIN calls : i # j => calls[i] # calls[j]

\* C1: after every add_knowledge call on an in-bounds non-mine cell with the
\* board-reported count, safes and mines are disjoint.
C1_SafeMinesDisjoint == pc = "idle" => safes \cap mines = {}

\* C2: under the driver loop no cell of safes is a mine of the board.
C2_SafesAreSafe == safes \cap board = {}

\* C3: when every call probed a not-yet-probed non-mine cell, every cell of
\* mines is a mine of the board.
C3_MinesAreMines == FreshCalls => mines \subseteq board

\* C5: every sentence of the active collection has 0 <= count <= |cells|.
C5_CountInRange ==
    \A i \in DOMAIN knowledge :
        0 <= knowledge[i].count /\ knowledge[i].count <= Cardinality(knowledge[i].cells)

\* C6: steps 1-3 of add_knowledge(cell, count) add exactly the sentence over
\* the neighbours of cell in none of moves_made, mines, safes, with the count
\* reduced by the neighbours already in mines, and add nothing when there is
\* no such neighbour.
C6_NewSentenceAdjusted ==
    [][(pc = "idle" /\ pc' = "resolve") =>
        LET cell  == calls'[Len(calls')]
            count == nearby_mines(board, height, width, cell)
            cand  == Adjacent(cell) \ (moves_made' \cup mines' \cup safes')
            adj   == count - Cardinality(Adjacent(cell) \cap mines')
            old   == [i \in DOMAIN knowledge |->
                        [cells |-> knowledge[i].cells \ {cell},
                         count |-> knowledge[i].count]]
        IN  knowledge' = IF cand # {}
                         THEN Append(old, [cells |-> cand, count |-> adj])
                         ELSE old]_vars

\* C4: every add_knowledge call returns: a call inside its fixpoint loop
\* eventually leaves it.
C4_AddKnowledgeReturns == (pc \in {"resolve", "infer"}) ~> (pc = "idle")

\* A call that resolved a sentence, and so ran the loop more than once, has
\* returned.
C4_Witness == pc = "idle" /\ Len(calls) = MaxCalls /\ mines # {} /\ safes # moves_made

\* C7: in the scenario, once add_knowledge((0,0),0), ((1,1),1), ((1,2),1) and
\* ((2,1),1) have returned, (2,2) is in mines and was never probed.
C7_ScenarioMarksMine ==
    (pc = "idle" /\ calls = ScenarioCalls) =>
        (<<2, 2>> \in mines /\ <<2, 2>> \notin moves_made)

\* The sentence that subset inference derives from A and B when A's cells are
\* a proper subset of B's
Derived(A, B) == [cells |-> B.cells \ A.cells, count |-> B.count - A.count]

\* Every pair of non-empty sentences of k, one's cells a proper subset of the
\* other's and the count difference positive, has its derived sentence in k.
Closed(k) ==
    \A i, j \in DOMAIN k :
        (/\ k[i].cells # {}
         /\ k[i].cells \subseteq k[j].cells
         /\ k[i].cells # k[j].cells
         /\ k[j].count - k[i].count > 0)
        => \E n \in DOMAIN k : k[n] = Derived(k[i], k[j])

\* The inference pass run on the list of the two sentences
\* {(0,0),(0,1)} = 1 and {(0,0),(0,1),(0,2)} = 2
ExampleInferred ==
    InferOuter(KB(<<[cells |-> {<<0, 0>>, <<0, 1>>}, count |-> 1],
                    [cells |-> {<<0, 0>>, <<0, 1>>, <<0, 2>>}, count |-> 2]>>,
                  {}, {}, 1), 1).k

\* C8: subset inference is carried out to closure: when add_knowledge returns
\* the derived sentence of every eligible pair is in the collection, and the
\* inference pass over {(0,0),(0,1)} = 1 and {(0,0),(0,1),(0,2)} = 2 adds
\* {(0,2)} = 1.
C8_InferenceClosed ==
    /\ pc = "idle" => Closed(knowledge)
    /\ \E n \in DOMAIN ExampleInferred :
         ExampleInferred[n] = [cells |-> {<<0, 2>>}, count |-> 1]

\* add_knowledge has returned with an eligible pair and its derived sentence
\* in the collection.
C8_Witness ==
    /\ pc = "idle"
    /\ \E i, j, n \in DOMAIN knowledge :
         /\ knowledge[i].cells # {}
         /\ knowledge[i].cells \subseteq knowledge[j].cells
         /\ knowledge[i].cells # knowledge[j].cells
         /\ knowledge[j].count - knowledge[i].count > 0
         /\ knowledge[n] = Derived(knowledge[i], knowledge[j])

\* C9: known_safes returns the cells when count = 0, known_mines returns the
\* cells when count = |cells| and there are cells, and in every other case
\* both return None.
C9_KnownResults ==
    \A i \in DOMAIN knowledge :
        LET s == knowledge[i]
            n == Cardinality(s.cells)
        IN  /\ s.count = 0 => known_safes(s) = [none |-> FALSE, cells |-> s.cells]
            /\ (s.count = n /\ s.cells # {})
                 => known_mines(s) = [none |-> FALSE, cells |-> s.cells]
            /\ (s.count # 0 /\ s.count # n)
                 => /\ known_safes(s) = [none |-> TRUE, cells |-> {}]
                    /\ known_mines(s) = [none |-> TRUE, cells |-> {}]

\* C10: moves_made, safes and mines only grow, across every step.
C10_SetsOnlyGrow ==
    [][/\ moves_made \subseteq moves_made'
       /\ safes \subseteq safes'
       /\ mines \subseteq mines']_vars

\* Two calls have each added to mines, and safes holds cells never probed.
C10_Witness ==
    /\ pc = "idle"
    /\ Cardinality(mines) >= 2
    /\ Cardinality(moves_made) >= 2
    /\ safes \ moves_made # {}

\* C11: a second mark_safe (mark_mine) call with the same cell changes none of
\* safes, mines, moves_made and the sentences of the active collection.
C11_MarksIdempotent ==
    [][(pc = "marked_safe" \/ pc = "marked_mine") =>
        (safes' = safes /\ mines' = mines /\ moves_made' = moves_made
         /\ knowledge' = knowledge)]_vars

\* A mark was repeated for a cell that the first call took out of a sentence.
C11_Witness ==
    /\ pc = "marked_twice"
    /\ ret \in mines
    /\ \E i \in DOMAIN knowledge :
         knowledge[i].count = 0 /\ knowledge[i].cells # {}

\* The cells of the board, by their coordinates
InBounds == {c \in (0 .. height - 1) \X (0 .. width - 1) : TRUE}

\* C12: make_random_move returns an in-bounds cell in neither moves_made nor
\* mines, and None exactly when every cell of the board is in one of them.
C12_RandomMoveFresh ==
    [][MakeRandomMove =>
        LET free == {c \in InBounds : c \notin moves_made /\ c \notin mines}
        IN  IF free = {} THEN ret' = NoneMove ELSE ret' \in free]_vars

\* make_random_move has returned a cell that is not known to be safe.
C12_Witness ==
    /\ pc = "idle"
    /\ calls # <<>>
    /\ ret \in InBounds
    /\ ret \notin safes
    /\ ret \notin mines

\* C13: make_safe_move returns a cell of safes minus moves_made minus mines
\* when there is one, and None exactly when there is none.
C13_SafeMoveFromSafes ==
    [][MakeSafeMove =>
        LET open == {c \in safes : c \notin moves_made /\ c \notin mines}
        IN  IF open = {} THEN ret' = NoneMove ELSE ret' \in open]_vars

\* A move was returned that is known safe and not yet made, while other safe
\* cells have been probed.
C13_Witness ==
    /\ pc = "idle"
    /\ ret \in InBounds
    /\ ret \in safes
    /\ ret \notin moves_made
    /\ Cardinality(moves_made) >= 2

\* C14: a call of make_safe_move or make_random_move, the only steps that
\* start and end between calls of add_knowledge, changes none of moves_made,
\* safes, mines and the active collection.
C14_MovesReadOnly ==
    [][(pc = "idle" /\ pc' = "idle") =>
        (moves_made' = moves_made /\ safes' = safes /\ mines' = mines
         /\ knowledge' = knowledge)]_vars

\* A move was returned from a knowledge base that holds sentences and mines.
C14_Witness ==
    /\ pc = "idle"
    /\ ret \in InBounds
    /\ knowledge # <<>>
    /\ mines # {}

\* C15: the construction of a board ends, also when more mines are asked for
\* than the board has cells: the placement loop does not run forever.
C15_ConstructionEnds == (pc = "placing") ~> (pc # "placing")

\* C15, within capacity: a built board has exactly mine_count mines and the
\* mine set is the set of cells the grid marks.
C15_BuiltExact ==
    pc # "placing" =>
        /\ Cardinality(mine_cells) = mine_count
        /\ mine_cells = board

\* C16: nearby_mines(cell) is the number of mines among the cells of the board
\* at Chebyshev distance exactly 1 from cell.
C16_NearbyMinesAdjacent ==
    pc = "counted" =>
        ret = Cardinality({c \in Adjacent(calls[1]) : c \in board})

\* nearby_mines was asked for a corner that is a mine with a mine next to it.
C16_Witness ==
    /\ pc = "counted"
    /\ calls[1] = <<0, 0>>
    /\ <<0, 0>> \in board
    /\ ret >= 1

\* C17: in every state reached by add_knowledge calls, between the passes of
\* the loop included, the cells of every sentence of the active collection are
\* disjoint from safes, from mines and from moves_made.
C17_NoResolvedCellInSentence ==
    \A i \in DOMAIN knowledge :
        knowledge[i].cells \cap (safes \cup mines \cup moves_made) = {}

\* Between two passes, with cells resolved both ways and two sentences active.
C17_Witness ==
    /\ pc = "infer"
    /\ Len(knowledge) >= 2
    /\ mines # {}
    /\ Cardinality(safes) > Cardinality(moves_made)

\* C18: when add_knowledge returns, the active collection holds no sentence
\* with empty cells, none with count 0 and none with count equal to the number
\* of its cells.
C18_NothingLeftToRetire ==
    pc = "idle" =>
        \A i \in DOMAIN knowledge :
            /\ knowledge[i].cells # {}
            /\ knowledge[i].count # 0
            /\ knowledge[i].count # Cardinality(knowledge[i].cells)

\* C19: after add_knowledge(cell, 0) has returned, the count being the one the
\* board reports, every neighbour of cell on the board is in safes and the
\* sentence built for the probe, of count 0 and cells among the neighbours,
\* is not in the active collection.
C19_ZeroClearsNeighbours ==
    (pc = "idle" /\ calls # <<>>) =>
        LET cell == calls[Len(calls)]
        IN  nearby_mines(board, height, width, cell) = 0 =>
                /\ Adjacent(cell) \subseteq safes
                /\ \A i \in DOMAIN knowledge :
                     ~ (knowledge[i].count = 0
                        /\ knowledge[i].cells \subseteq Adjacent(cell))

\* A sentence whose count its cells can hold
InRange(s) == 0 <= s.count /\ s.count <= Cardinality(s.cells)

\* C20: no step of add_knowledge, neither the construction of the new sentence
\* nor the inference pass, puts into the active collection a sentence whose
\* count is negative or exceeds the number of its cells.
C20_NoMalformedInsert ==
    [][((pc = "idle" /\ pc' = "resolve") \/ pc = "infer") =>
        (\A i \in DOMAIN knowledge' :
            i > Len(knowledge) => InRange(knowledge'[i]))]_vars

====
